---- MODULE Spec2Model ----
(***************************************************************************)
(* Flashcard review engine of studentsai (backend/app): the SM-2-lite      *)
(* schedule update (database.py, update_srs_after_review), the mastery     *)
(* fields of a flashcard (database.py, update_flashcard_progress and the   *)
(* review handlers of main.py) and the two review entry points.            *)
(*                                                                         *)
(* Tables are functions from primary key to row.  e-factors are the stored *)
(* integers (hundredths).  Dates are day numbers.                          *)
(***************************************************************************)
EXTENDS Integers, Sequences, FiniteSets, TLC

VARIABLES
    flashcards,     \* table "flashcards": id -> row (Flashcard, database.py:176)
    flashcard_srs,  \* table "flashcard_srs": flashcard_id -> row (FlashcardSRS)
    today,          \* datetime.now(timezone.utc).date(), as a day number
    sessions,       \* in-flight review requests, each with its own Session
    last,           \* the last review request and the response it got
    fives           \* per card: reviews answered 200 with resolved quality 5

vars == <<flashcards, flashcard_srs, today, sessions, last, fives>>

----------------------------------------------------------------------------
(* Bounds of the model *)

MaxReviews == 6     \* review requests processed in one behaviour
MaxStreak == 5      \* successful reviews in a row (repetitions) of one card
MaxDay == 1         \* last day the clock reaches
MaxSessions == 2    \* review requests in flight at once, each served once

Cards == {"c1"}
AllCards == {"c1", "c2", "c3"}
Users == {"u1", "u2"}
Creators == {"u1"}      \* the user who creates the cards

\* quality_rating of FlashcardDetailedReview is Optional[int], unvalidated
QualityRatings == {-1, 0, 2, 3, 4, 5, 16}
\* performance_score of FlashcardReview is Optional[int], unvalidated
PerformanceScores == {49, 80, 120}

----------------------------------------------------------------------------
(* Program constants *)

DefaultEfactor == 250
DefaultInterval == 1
EfactorFloor == 130
MasteredEfactor == 300
RecentlyLearned == "recently_learned"

Max(a, b) == IF a >= b THEN a ELSE b
Min(a, b) == IF a <= b THEN a ELSE b

----------------------------------------------------------------------------
(* Python float arithmetic of update_srs_after_review *)

\* (interval_days, efactor) pairs at which interval_days * (efactor / 100.0)
\* is an exact tie x.5 in the rationals but the IEEE-754 double product falls
\* just above it, so round() goes up whatever the parity of x.
\* Computed for interval_days <= 2000 and even efactor in 130..400.
FloatTieAbove ==
    {
      <<25, 218>>, <<25, 222>>, <<45, 270>>, <<75, 162>>, <<75, 222>>, <<75, 274>>,
      <<75, 322>>, <<85, 270>>, <<165, 270>>, <<175, 222>>, <<175, 270>>, <<175, 274>>,
      <<185, 270>>, <<225, 218>>, <<225, 222>>, <<275, 162>>, <<275, 274>>, <<325, 222>>,
      <<325, 270>>, <<325, 274>>, <<335, 270>>, <<345, 270>>, <<355, 270>>, <<365, 270>>,
      <<375, 134>>, <<375, 218>>, <<375, 222>>, <<375, 270>>, <<425, 218>>, <<425, 222>>,
      <<475, 214>>, <<575, 162>>, <<575, 274>>, <<625, 162>>, <<625, 222>>, <<625, 274>>,
      <<625, 322>>, <<645, 270>>, <<655, 270>>, <<665, 270>>, <<675, 222>>, <<675, 270>>,
      <<675, 274>>, <<685, 270>>, <<695, 270>>, <<705, 270>>, <<715, 270>>, <<725, 134>>,
      <<725, 218>>, <<725, 222>>, <<725, 270>>, <<725, 274>>, <<735, 270>>, <<745, 270>>,
      <<755, 270>>, <<775, 218>>, <<775, 222>>, <<825, 218>>, <<825, 222>>, <<875, 218>>,
      <<875, 222>>, <<925, 214>>, <<925, 218>>, <<1075, 162>>, <<1075, 274>>, <<1075, 374>>,
      <<1125, 162>>, <<1125, 274>>, <<1175, 162>>, <<1175, 222>>, <<1175, 274>>, <<1175, 322>>,
      <<1225, 162>>, <<1225, 222>>, <<1225, 274>>, <<1225, 322>>, <<1275, 222>>, <<1275, 274>>,
      <<1285, 270>>, <<1295, 270>>, <<1305, 270>>, <<1315, 270>>, <<1325, 222>>, <<1325, 270>>,
      <<1325, 274>>, <<1335, 270>>, <<1345, 270>>, <<1355, 270>>, <<1365, 270>>, <<1375, 222>>,
      <<1375, 270>>, <<1375, 274>>, <<1385, 270>>, <<1395, 270>>, <<1405, 270>>, <<1415, 270>>,
      <<1425, 134>>, <<1425, 218>>, <<1425, 222>>, <<1425, 270>>, <<1425, 274>>, <<1435, 270>>,
      <<1445, 270>>, <<1455, 270>>, <<1465, 270>>, <<1475, 134>>, <<1475, 218>>, <<1475, 222>>,
      <<1475, 270>>, <<1475, 274>>, <<1485, 270>>, <<1495, 270>>, <<1505, 270>>, <<1515, 270>>,
      <<1525, 134>>, <<1525, 218>>, <<1525, 222>>, <<1575, 218>>, <<1575, 222>>, <<1625, 218>>,
      <<1625, 222>>, <<1675, 218>>, <<1675, 222>>, <<1725, 218>>, <<1725, 222>>, <<1775, 218>>,
      <<1775, 222>>, <<1825, 218>>, <<1825, 222>>, <<1875, 214>>, <<1875, 218>>
    }

\* ... and the pairs whose double product falls just below the tie, so
\* round() goes down.  At every other tie the double product is exactly x.5.
FloatTieBelow ==
    {
      <<25, 226>>, <<25, 230>>, <<45, 230>>, <<55, 230>>, <<75, 138>>, <<75, 226>>,
      <<75, 278>>, <<75, 326>>, <<85, 230>>, <<95, 230>>, <<105, 230>>, <<165, 230>>,
      <<175, 138>>, <<175, 226>>, <<175, 230>>, <<175, 278>>, <<185, 230>>, <<195, 230>>,
      <<205, 230>>, <<215, 230>>, <<225, 226>>, <<275, 138>>, <<275, 226>>, <<275, 326>>,
      <<325, 138>>, <<325, 226>>, <<325, 230>>, <<325, 278>>, <<335, 230>>, <<345, 230>>,
      <<355, 230>>, <<365, 230>>, <<375, 226>>, <<375, 230>>, <<385, 230>>, <<395, 230>>,
      <<405, 230>>, <<415, 230>>, <<425, 226>>, <<425, 230>>, <<425, 234>>, <<435, 230>>,
      <<445, 230>>, <<575, 138>>, <<575, 226>>, <<575, 326>>, <<625, 138>>, <<625, 226>>,
      <<625, 278>>, <<625, 326>>, <<645, 230>>, <<655, 230>>, <<665, 230>>, <<675, 138>>,
      <<675, 226>>, <<675, 230>>, <<675, 278>>, <<685, 230>>, <<695, 230>>, <<705, 230>>,
      <<715, 230>>, <<725, 138>>, <<725, 226>>, <<725, 230>>, <<725, 278>>, <<725, 282>>,
      <<735, 230>>, <<745, 230>>, <<755, 230>>, <<765, 230>>, <<775, 226>>, <<775, 230>>,
      <<785, 230>>, <<795, 230>>, <<805, 230>>, <<815, 230>>, <<825, 226>>, <<825, 230>>,
      <<825, 234>>, <<835, 230>>, <<845, 230>>, <<855, 230>>, <<865, 230>>, <<875, 226>>,
      <<875, 230>>, <<875, 234>>, <<885, 230>>, <<1075, 138>>, <<1075, 226>>, <<1075, 326>>,
      <<1125, 138>>, <<1125, 226>>, <<1125, 326>>, <<1175, 138>>, <<1175, 226>>, <<1175, 278>>,
      <<1175, 326>>, <<1225, 138>>, <<1225, 226>>, <<1225, 278>>, <<1225, 326>>, <<1275, 138>>,
      <<1275, 226>>, <<1275, 278>>, <<1285, 230>>, <<1295, 230>>, <<1305, 230>>, <<1315, 230>>,
      <<1325, 138>>, <<1325, 226>>, <<1325, 230>>, <<1325, 278>>, <<1335, 230>>, <<1345, 230>>,
      <<1355, 230>>, <<1365, 230>>, <<1375, 138>>, <<1375, 226>>, <<1375, 230>>, <<1375, 278>>,
      <<1385, 230>>, <<1395, 230>>, <<1405, 230>>, <<1415, 230>>, <<1425, 138>>, <<1425, 226>>,
      <<1425, 230>>, <<1425, 278>>, <<1425, 282>>, <<1435, 230>>, <<1445, 230>>, <<1455, 230>>,
      <<1465, 230>>, <<1475, 138>>, <<1475, 226>>, <<1475, 230>>, <<1485, 230>>, <<1495, 230>>,
      <<1505, 230>>, <<1515, 230>>, <<1525, 226>>, <<1525, 230>>, <<1535, 230>>, <<1545, 230>>,
      <<1555, 230>>, <<1565, 230>>, <<1575, 226>>, <<1575, 230>>, <<1585, 230>>, <<1595, 230>>,
      <<1605, 230>>, <<1615, 230>>, <<1625, 226>>, <<1625, 230>>, <<1625, 234>>, <<1635, 230>>,
      <<1645, 230>>, <<1655, 230>>, <<1665, 230>>, <<1675, 226>>, <<1675, 230>>, <<1675, 234>>,
      <<1685, 230>>, <<1695, 230>>, <<1705, 230>>, <<1715, 230>>, <<1725, 226>>, <<1725, 230>>,
      <<1725, 234>>, <<1735, 230>>, <<1745, 230>>, <<1755, 230>>, <<1765, 230>>, <<1775, 226>>,
      <<1775, 230>>
    }

PyRoundIntervalTruncated(interval_days, efactor) ==
    (interval_days * efactor) \div 100

\* round(interval_days * ef) with ef = efactor / 100.0 (database.py:1079-1080):
\* Python 3 round() is round-half-to-even on the double it is given.
PyRoundInterval(interval_days, efactor) ==
    LET p == interval_days * efactor
        q == p \div 100
        r == p % 100
    IN  IF r > 50 THEN q + 1
        ELSE IF r < 50 THEN q
        ELSE IF <<interval_days, efactor>> \in FloatTieAbove THEN q + 1
        ELSE IF <<interval_days, efactor>> \in FloatTieBelow THEN q
        ELSE IF q % 2 = 1 THEN q + 1 ELSE q

EfChangeAlwaysUp(quality) == 10

\* ef_change = 0.1 - (5 - quality) * (0.08 + (5 - quality) * 0.02), in hundredths
EfChange(quality) == 10 - (5 - quality) * (8 + (5 - quality) * 2)

NewEfactorNoFloor(efactor, quality) == efactor + EfChange(quality)

\* round(max(1.3, ef + ef_change) * 100)
NewEfactor(efactor, quality) == Max(EfactorFloor, efactor + EfChange(quality))

----------------------------------------------------------------------------
(* Python str operations used by the answer scorers.  A str is a sequence  *)
(* of one-character strings.                                               *)

UpperCase == {"P", "T", "C"}
Whitespace == {" "}

\* str.lower(), one character
LowerChar(ch) ==
    CASE ch = "P" -> "p"
      [] ch = "T" -> "t"
      [] ch = "C" -> "c"
      [] OTHER -> ch

\* str.lower()
Lower(s) == [i \in 1 .. Len(s) |-> LowerChar(s[i])]

RECURSIVE LStrip(_)
LStrip(s) ==
    IF s # <<>> /\ Head(s) \in Whitespace THEN LStrip(Tail(s)) ELSE s

RECURSIVE RStrip(_)
RStrip(s) ==
    IF s # <<>> /\ s[Len(s)] \in Whitespace
    THEN RStrip(SubSeq(s, 1, Len(s) - 1))
    ELSE s

\* str.strip()
Strip(s) == RStrip(LStrip(s))

\* set(str.split()): the maximal runs of non-whitespace characters
RECURSIVE SplitWords(_, _)
SplitWords(s, word) ==
    IF s = <<>> THEN (IF word = <<>> THEN {} ELSE {word})
    ELSE IF Head(s) \in Whitespace
         THEN (IF word = <<>> THEN {} ELSE {word}) \cup SplitWords(Tail(s), <<>>)
         ELSE SplitWords(Tail(s), Append(word, Head(s)))

WordSet(s) == SplitWords(s, <<>>)

----------------------------------------------------------------------------
(* Answers of the cards and the answers a user may type *)

TextParis == <<"P", "a", "r", "i", "s">>
TextParisNoisy == <<" ", " ", "p", "a", "r", "i", "s", "!", "!", " ">>
TextCatMat ==
    <<"t", "h", "e", " ", "c", "a", "t", " ", "s", "a", "t", " ",
      "o", "n", " ", "t", "h", "e", " ", "m", "a", "t">>
TextCatSat == <<"T", "h", "e", " ", "c", "a", "t", " ", "s", "a", "t">>
TextDog == <<"d", "o", "g">>

\* answer given to create_flashcard for each card
CardAnswer(c) == IF c = "c1" THEN TextParis ELSE TextCatMat

\* typed_answer of FlashcardDetailedReview (a str, unvalidated; may be empty)
TypedAnswers == {<<>>, TextParis, TextParisNoisy, TextCatMat, TextCatSat, TextDog}

\* request bodies <<typed_answer, quality_rating>> of the enhanced review:
\* quality_rating is <<>> when absent, <<q>> when the user rates manually
DetailedReviews ==
    {<<typed, <<>>>> : typed \in TypedAnswers}
        \cup {<<TextDog, <<q>>>> : q \in QualityRatings}

\* the request bodies sent at the same time: a failure, two successes
ConcurrentReviews == {<<TextDog, <<2>>>>, <<TextDog, <<4>>>>, <<TextParis, <<>>>>}

----------------------------------------------------------------------------
(* Answer evaluation of review_flashcard_enhanced (main.py:2109-2154) *)

\* similarity_score as the exact fraction num / den
EnhancedSimilarity(answer, typed) ==
    LET typed_answer == Strip(Lower(typed))
        correct_answer == Strip(Lower(answer))
        typed_words == WordSet(typed_answer)
        correct_words == WordSet(correct_answer)
        n == Cardinality(correct_words)
        overlap == Cardinality(typed_words \cap correct_words)
        lc == Max(Len(correct_answer), 1)
        den == 10 * n * lc
        \* (word_similarity * 0.7) + (length_score * 0.3), times den
        combined == 700 * overlap * lc
                    + 3 * Min(100 * n * lc, 100 * Len(typed_answer) * n)
        bonus == IF overlap > 0 /\ overlap < n
                 THEN Min(100 * den, combined + 10 * den)
                 ELSE combined
        penalty == IF overlap = 0 THEN Max(0, bonus - 20 * den) ELSE bonus
    IN  IF typed_answer = correct_answer THEN [num |-> 100, den |-> 1]
        ELSE IF n = 0 THEN [num |-> 0, den |-> 1]
        ELSE [num |-> penalty, den |-> den]

\* map similarity to quality rating (main.py:2144-2154)
EnhancedQuality(answer, typed) ==
    LET sim == EnhancedSimilarity(answer, typed)
    IN  IF sim.num >= 95 * sim.den THEN 5
        ELSE IF sim.num >= 80 * sim.den THEN 4
        ELSE IF sim.num >= 60 * sim.den THEN 3
        ELSE IF sim.num >= 30 * sim.den THEN 2
        ELSE 1

----------------------------------------------------------------------------
(* Rows *)

\* Flashcard(...) as create_flashcard builds it (database.py:590-609), with
\* the column defaults of the model (database.py:190-196).  The nullable
\* last_performance holds <<>> for NULL and <<v>> for a value.  The columns
\* last_reviewed, next_review and user_answer_history are written by the
\* review handlers and read by none of the operations below; they are left out.
NewFlashcard(c, user_id) ==
    [ user_id |-> user_id,
      answer |-> CardAnswer(c),
      tags |-> <<>>,
      review_count |-> 0,
      mastery_level |-> 0,
      last_performance |-> <<>> ]

NewSrsEntryDueTomorrow(user_id, day) ==
    [ user_id |-> user_id,
      efactor |-> DefaultEfactor,
      interval_days |-> DefaultInterval,
      due_date |-> day + 1,
      repetitions |-> 0 ]

\* FlashcardSRS(...) of get_or_create_srs_entry (database.py:1040-1047)
NewSrsEntry(user_id, day) ==
    [ user_id |-> user_id,
      efactor |-> DefaultEfactor,
      interval_days |-> DefaultInterval,
      due_date |-> day,
      repetitions |-> 0 ]

InSeq(x, s) == \E i \in 1 .. Len(s) : s[i] = x

\* [tag for tag in tags if tag != x]
RECURSIVE Without(_, _)
Without(s, x) ==
    IF s = <<>> THEN <<>>
    ELSE IF Head(s) = x THEN Without(Tail(s), x)
    ELSE <<Head(s)>> \o Without(Tail(s), x)

\* list.remove(x): drops the first occurrence
RECURSIVE RemoveFirst(_, _)
RemoveFirst(s, x) ==
    IF s = <<>> THEN <<>>
    ELSE IF Head(s) = x THEN Tail(s)
    ELSE <<Head(s)>> \o RemoveFirst(Tail(s), x)

----------------------------------------------------------------------------
(* update_srs_after_review (database.py:1055-1098), on the loaded row *)

SrsFailedAdapting(row, day) ==
    [row EXCEPT !.repetitions = 0,
                !.interval_days = 1,
                !.efactor = NewEfactor(row.efactor, 0),
                !.due_date = day + 1]

SrsFailedKeepInterval(row, day) ==
    [row EXCEPT !.repetitions = 0,
                !.due_date = day + row.interval_days]

SrsFailed(row, day) ==
    [row EXCEPT !.repetitions = 0,
                !.interval_days = 1,
                !.due_date = day + 1]

SrsPassedNewEfactor(row, quality, day) ==
    LET repetitions == row.repetitions + 1
        efactor == NewEfactor(row.efactor, quality)
        interval_days ==
            IF repetitions = 1 THEN 1
            ELSE IF repetitions = 2 THEN 6
            ELSE Max(1, PyRoundInterval(row.interval_days, efactor))
    IN  [row EXCEPT !.repetitions = repetitions,
                    !.interval_days = interval_days,
                    !.efactor = efactor,
                    !.due_date = day + interval_days]

SrsPassedStaleDue(row, quality, day) ==
    LET repetitions == row.repetitions + 1
        interval_days ==
            IF repetitions = 1 THEN 1
            ELSE IF repetitions = 2 THEN 6
            ELSE Max(1, PyRoundInterval(row.interval_days, row.efactor))
    IN  [row EXCEPT !.repetitions = repetitions,
                    !.interval_days = interval_days,
                    !.efactor = NewEfactor(row.efactor, quality),
                    !.due_date = day + row.interval_days]

SrsPassed(row, quality, day) ==
    LET repetitions == row.repetitions + 1
        interval_days ==
            IF repetitions = 1 THEN 1
            ELSE IF repetitions = 2 THEN 6
            ELSE Max(1, PyRoundInterval(row.interval_days, row.efactor))
    IN  [row EXCEPT !.repetitions = repetitions,
                    !.interval_days = interval_days,
                    !.efactor = NewEfactor(row.efactor, quality),
                    !.due_date = day + interval_days]

SrsAfterReview(row, quality, day) ==
    IF quality < 3 THEN SrsFailed(row, day)
    ELSE SrsPassed(row, quality, day)

----------------------------------------------------------------------------
(* Mastery fields *)

\* performance_map.get(quality_rating, 60) (main.py:2164-2165)
PerformanceOf(quality) ==
    CASE quality = 0 -> 0
      [] quality = 1 -> 20
      [] quality = 2 -> 40
      [] quality = 3 -> 60
      [] quality = 4 -> 80
      [] quality = 5 -> 100
      [] OTHER -> 60

MasteryAfterUnclamped(mastery_level, performance_score) ==
    IF performance_score >= 80 THEN mastery_level + 20
    ELSE IF performance_score < 50 THEN mastery_level - 10
    ELSE mastery_level

MasteryAfterLoweredBelow80(mastery_level, performance_score) ==
    IF performance_score >= 80 THEN Min(100, mastery_level + 20)
    ELSE Max(0, mastery_level - 10)

\* mastery level update shared by both handlers (main.py:2169-2172,
\* database.py:911-917)
MasteryAfter(mastery_level, performance_score) ==
    IF performance_score >= 80 THEN Min(100, mastery_level + 20)
    ELSE IF performance_score < 50 THEN Max(0, mastery_level - 10)
    ELSE mastery_level

\* update_flashcard_progress (database.py:897-954) on the flashcard row
ProgressAfter(row, performance_score) ==
    LET mastery == MasteryAfter(row.mastery_level, performance_score)
        tags ==
            IF performance_score >= 80
            THEN (IF mastery >= 80 /\ ~InSeq(RecentlyLearned, row.tags)
                  THEN row.tags \o <<RecentlyLearned>>
                  ELSE row.tags)
            ELSE IF performance_score < 50
            THEN Without(row.tags, RecentlyLearned)
            ELSE row.tags
    IN  [row EXCEPT !.review_count = row.review_count + 1,
                    !.last_performance = <<performance_score>>,
                    !.mastery_level = mastery,
                    !.tags = tags]

EnhancedTagsInSessionEarly(tags, performance_score, repetitions) ==
    IF performance_score >= 80 /\ repetitions >= 2
    THEN (IF ~InSeq(RecentlyLearned, tags)
          THEN Append(tags, RecentlyLearned) ELSE tags)
    ELSE IF performance_score < 50
    THEN (IF InSeq(RecentlyLearned, tags)
          THEN RemoveFirst(tags, RecentlyLearned) ELSE tags)
    ELSE tags

\* The tag list of the Flashcard object in the session after the tag block
\* of review_flashcard_enhanced (main.py:2174-2183).
EnhancedTagsInSession(tags, performance_score, repetitions) ==
    IF performance_score >= 80 /\ repetitions >= 3
    THEN (IF ~InSeq(RecentlyLearned, tags)
          THEN Append(tags, RecentlyLearned) ELSE tags)
    ELSE IF performance_score < 50
    THEN (IF InSeq(RecentlyLearned, tags)
          THEN RemoveFirst(tags, RecentlyLearned) ELSE tags)
    ELSE tags

\* What db.commit() writes to flashcards.tags: the column is a plain
\* ARRAY(String) (database.py:190), so the unit of work sees a change only
\* when the attribute was assigned.  The handler assigns (flashcard.tags = [])
\* only when the loaded list is empty (main.py:2175-2176); append() and
\* remove() on a loaded, non-empty list mutate it in place and are not flushed.
EnhancedTagsCommitted(tags, performance_score, repetitions) ==
    IF tags = <<>>
    THEN EnhancedTagsInSession(<<>>, performance_score, repetitions)
    ELSE tags

\* the flashcard row written by review_flashcard_enhanced (main.py:2159-2185)
EnhancedCardAfter(row, quality, repetitions) ==
    LET performance_score == PerformanceOf(quality)
    IN  [row EXCEPT !.review_count = row.review_count + 1,
                    !.last_performance = <<performance_score>>,
                    !.mastery_level =
                        MasteryAfter(row.mastery_level, performance_score),
                    !.tags = EnhancedTagsCommitted(row.tags, performance_score,
                                                   repetitions)]

----------------------------------------------------------------------------
(* State *)

\* last: the last request and its response; result is the list of card ids
\* a due query or a mastered-card scan returned, feedback the feedback text
\* of a review answered 200
NoRequest ==
    [op |-> "none", status |-> 0, card |-> "none", quality |-> 0,
     result |-> <<>>, feedback |-> ""]

\* A request handler with its own Session (get_db, database.py:295-301).
\* srs and flashcard hold the row the Session has loaded, <<>> when none.
Sessions == 1 .. MaxSessions

IdleSession ==
    [pc |-> "idle", status |-> 0, card |-> "none", user |-> "none",
     quality |-> 0, srs |-> <<>>, flashcard |-> <<>>]

Init ==
    /\ flashcards = <<>>
    /\ flashcard_srs = <<>>
    /\ today = 0
    /\ sessions = [s \in Sessions |-> IdleSession]
    /\ last = NoRequest
    /\ fives = [c \in AllCards |-> 0]

\* the model stops reviewing a card after MaxReviews reviews
MayReview(c) == c \in DOMAIN flashcards => flashcards[c].review_count < MaxReviews

----------------------------------------------------------------------------
(* Operations, one request at a time *)

\* the UTC date changes
Tick ==
    /\ today < MaxDay
    /\ today' = today + 1
    /\ UNCHANGED <<flashcards, flashcard_srs, sessions, last, fives>>

\* get_or_create_srs_entry (database.py:1030-1052) on the table
GetOrCreateSrs(table, c, user_id, day) ==
    IF c \in DOMAIN table THEN table
    ELSE table @@ (c :> NewSrsEntry(user_id, day))

\* create_flashcard alone: a card without a schedule (database.py:590-609)
CreateFlashcard(c, u) ==
    /\ c \notin DOMAIN flashcards
    /\ flashcards' = flashcards @@ (c :> NewFlashcard(c, u))
    /\ UNCHANGED <<flashcard_srs, today, sessions, last, fives>>

\* generate_flashcards, one card: create_flashcard, then
\* get_or_create_srs_entry (main.py:1937-1948)
GenerateFlashcard(c, u) ==
    /\ c \notin DOMAIN flashcards
    /\ flashcards' = flashcards @@ (c :> NewFlashcard(c, u))
    /\ flashcard_srs' = GetOrCreateSrs(flashcard_srs, c, u, today)
    /\ UNCHANGED <<today, sessions, last, fives>>

\* the templates of main.py:2201-2208
FeedbackTemplate(quality_rating) ==
    IF quality_rating >= 4 THEN "Excellent! You've mastered this concept."
    ELSE IF quality_rating = 3 THEN "Good job! Keep practicing to improve."
    ELSE "Keep studying this material. Review the answer and try again."

\* main.py:2193-2208: feedback is <<>> (None) or <<text>>; the variable is
\* always bound, so the template is taken only for the one fixed text
ComposedFeedback(feedback, quality_rating) ==
    IF feedback # <<"AI evaluation completed with fallback scoring">>
    THEN feedback
    ELSE <<FeedbackTemplate(quality_rating)>>

\* feedback of the response of review_flashcard_enhanced: the variable is
\* set to None (main.py:2106) and the scorer does not assign it
\* (main.py:2109-2154); the response replaces None (main.py:2233)
EnhancedFeedback(quality_rating) ==
    LET feedback == ComposedFeedback(<<>>, quality_rating)
    IN  IF feedback # <<>> THEN feedback[1] ELSE "Evaluation completed"

ResolvedQualityZeroAsAbsent(answer, typed, rating) ==
    IF rating # <<>> /\ rating[1] # 0 THEN rating[1]
    ELSE EnhancedQuality(answer, typed)

\* quality_rating as resolved by review_flashcard_enhanced (main.py:2102-2154);
\* rating is <<>> (no quality_rating in the body) or <<q>>
ResolvedQuality(answer, typed, rating) ==
    IF rating # <<>> THEN rating[1] ELSE EnhancedQuality(answer, typed)

ReviewFlashcardEnhancedSrsFirst(c, u, typed, rating) ==
    /\ MayReview(c)
    /\ IF c \notin DOMAIN flashcards
       THEN /\ flashcard_srs' = GetOrCreateSrs(flashcard_srs, c, u, today)
            /\ last' = [op |-> "review_enhanced", status |-> 404,
                        card |-> c, quality |-> 0, result |-> <<>>, feedback |-> ""]
            /\ UNCHANGED <<flashcards, fives>>
       ELSE LET quality == ResolvedQuality(flashcards[c].answer, typed, rating)
                table == GetOrCreateSrs(flashcard_srs, c, u, today)
                srs_entry == SrsAfterReview(table[c], quality, today)
            IN  /\ srs_entry.repetitions <= MaxStreak
                /\ flashcard_srs' = [table EXCEPT ![c] = srs_entry]
                /\ flashcards' =
                       [flashcards EXCEPT
                           ![c] = EnhancedCardAfter(@, quality,
                                                    srs_entry.repetitions)]
                /\ last' = [op |-> "review_enhanced", status |-> 200,
                            card |-> c, quality |-> quality, result |-> <<>>,
                            feedback |-> EnhancedFeedback(quality)]
                /\ fives' = [fives EXCEPT ![c] = IF quality = 5 THEN @ + 1 ELSE @]
    /\ UNCHANGED <<today, sessions>>

\* POST /flashcards/{id}/review/enhanced (main.py:2084-2247)
ReviewFlashcardEnhanced(c, u, typed, rating) ==
    /\ MayReview(c)
    /\ IF c \notin DOMAIN flashcards
       THEN /\ last' = [op |-> "review_enhanced", status |-> 404,
                        card |-> c, quality |-> 0, result |-> <<>>, feedback |-> ""]
            /\ UNCHANGED <<flashcards, flashcard_srs, fives>>
       ELSE LET quality == ResolvedQuality(flashcards[c].answer, typed, rating)
                table == GetOrCreateSrs(flashcard_srs, c, u, today)
                srs_entry == SrsAfterReview(table[c], quality, today)
            IN  /\ srs_entry.repetitions <= MaxStreak
                /\ flashcard_srs' = [table EXCEPT ![c] = srs_entry]
                /\ flashcards' =
                       [flashcards EXCEPT
                           ![c] = EnhancedCardAfter(@, quality,
                                                    srs_entry.repetitions)]
                /\ last' = [op |-> "review_enhanced", status |-> 200,
                            card |-> c, quality |-> quality, result |-> <<>>,
                            feedback |-> EnhancedFeedback(quality)]
                /\ fives' = [fives EXCEPT ![c] = IF quality = 5 THEN @ + 1 ELSE @]
    /\ UNCHANGED <<today, sessions>>

\* POST /flashcards/{id}/review (main.py:1440-1748).  score is <<>> or <<p>>.
\* update_flashcard_progress commits; the handler then reads
\* review_data.quality_rating (main.py:1466), a field FlashcardReview
\* (schemas.py:320-323) does not have: AttributeError, answered 500.
ReviewFlashcard(c, score) ==
    /\ MayReview(c)
    /\ LET performance_score == IF score = <<>> THEN 0 ELSE score[1]
       IN  IF c \notin DOMAIN flashcards
           THEN /\ last' = [op |-> "review", status |-> 404,
                            card |-> c, quality |-> 0, result |-> <<>>, feedback |-> ""]
                /\ UNCHANGED flashcards
           ELSE /\ flashcards' =
                       [flashcards EXCEPT
                           ![c] = ProgressAfter(@, performance_score)]
                /\ last' = [op |-> "review", status |-> 500,
                            card |-> c, quality |-> 0, result |-> <<>>, feedback |-> ""]
    /\ UNCHANGED <<flashcard_srs, today, sessions, fives>>

Next ==
    \/ Tick
    \/ \E c \in Cards, u \in Creators : CreateFlashcard(c, u)
    \/ \E c \in Cards, u \in Creators : GenerateFlashcard(c, u)
    \/ \E c \in Cards, u \in Creators, review_data \in DetailedReviews :
          ReviewFlashcardEnhanced(c, u, review_data[1], review_data[2])
    \/ \E c \in Cards, score \in {<<>>} \cup {<<p>> : p \in PerformanceScores} :
          ReviewFlashcard(c, score)

Spec == Init /\ [][Next]_vars

----------------------------------------------------------------------------
(* The enhanced review as the statements its Session sends, for requests   *)
(* served at the same time.  Each request has its own Session and          *)
(* transaction (get_db); the engine uses the database's default isolation  *)
(* (create_engine(DATABASE_URL), database.py:33) and no query locks a row. *)

\* The UPDATE a flush emits sets the columns whose value in the Session
\* differs from the value it loaded; the other columns keep the row's.
WriteDirty(row, loaded, changed) ==
    [col \in DOMAIN row |->
        IF changed[col] # loaded[col] THEN changed[col] ELSE row[col]]

\* main.py:2094-2157 and database.py:1034-1038: SELECT the flashcard, resolve
\* the quality, SELECT the schedule
EnhancedBegin(s, c, u, typed, rating) ==
    /\ sessions[s].pc = "idle"
    /\ IF c \notin DOMAIN flashcards
       THEN /\ sessions' = [sessions EXCEPT ![s] =
                   [IdleSession EXCEPT !.pc = "done", !.status = 404, !.card = c]]
            /\ last' = [op |-> "review_enhanced", status |-> 404,
                        card |-> c, quality |-> 0, result |-> <<>>, feedback |-> ""]
       ELSE /\ sessions' = [sessions EXCEPT ![s] =
                   [pc |-> IF c \in DOMAIN flashcard_srs
                           THEN "update_srs" ELSE "insert_srs",
                    status |-> 0, card |-> c, user |-> u,
                    quality |-> ResolvedQuality(flashcards[c].answer, typed, rating),
                    srs |-> IF c \in DOMAIN flashcard_srs
                            THEN <<flashcard_srs[c]>> ELSE <<>>,
                    flashcard |-> <<>>]]
            /\ UNCHANGED last
    /\ UNCHANGED <<flashcards, flashcard_srs, today, fives>>

\* database.py:1038-1050: INSERT the default schedule and COMMIT;
\* flashcard_id is the primary key (database.py:222-224), so the INSERT fails
\* when another request has inserted the row meanwhile, and the handler
\* answers 500 (main.py:2243-2247)
EnhancedInsertSrs(s) ==
    LET c == sessions[s].card IN
    /\ sessions[s].pc = "insert_srs"
    /\ IF c \in DOMAIN flashcard_srs
       THEN /\ sessions' = [sessions EXCEPT ![s].pc = "done", ![s].status = 500]
            /\ last' = [op |-> "review_enhanced", status |-> 500,
                        card |-> c, quality |-> sessions[s].quality,
                    result |-> <<>>, feedback |-> ""]
            /\ UNCHANGED flashcard_srs
       ELSE /\ flashcard_srs' = GetOrCreateSrs(flashcard_srs, c, sessions[s].user, today)
            /\ sessions' = [sessions EXCEPT
                              ![s].pc = "update_srs",
                              ![s].srs = <<NewSrsEntry(sessions[s].user, today)>>]
            /\ UNCHANGED last
    /\ UNCHANGED <<flashcards, today, fives>>

EnhancedUpdateSrsOfUser(s) ==
    LET c == sessions[s].card
        loaded == sessions[s].srs[1]
        srs_entry == SrsAfterReview(loaded, sessions[s].quality, today)
        written == WriteDirty(flashcard_srs[c], loaded, srs_entry)
    IN  /\ sessions[s].pc = "update_srs"
        /\ flashcard_srs' =
               [d \in DOMAIN flashcard_srs |->
                   IF flashcard_srs[d].user_id = flashcard_srs[c].user_id
                   THEN written ELSE flashcard_srs[d]]
        /\ sessions' = [sessions EXCEPT ![s].pc = "reload_card",
                                        ![s].srs = <<written>>]
        /\ UNCHANGED <<flashcards, today, last, fives>>

\* database.py:1064-1098: the SM-2-lite update on the loaded row, UPDATE,
\* COMMIT, refresh
EnhancedUpdateSrs(s) ==
    LET c == sessions[s].card
        loaded == sessions[s].srs[1]
        srs_entry == SrsAfterReview(loaded, sessions[s].quality, today)
        written == WriteDirty(flashcard_srs[c], loaded, srs_entry)
    IN  /\ sessions[s].pc = "update_srs"
        /\ flashcard_srs' = [flashcard_srs EXCEPT ![c] = written]
        /\ sessions' = [sessions EXCEPT ![s].pc = "reload_card",
                                        ![s].srs = <<written>>]
        /\ UNCHANGED <<flashcards, today, last, fives>>

\* main.py:2160: the commit has expired the Flashcard object, so reading
\* flashcard.review_count SELECTs the row again
EnhancedReloadCard(s) ==
    /\ sessions[s].pc = "reload_card"
    /\ sessions' = [sessions EXCEPT ![s].pc = "commit_card",
                                    ![s].flashcard = <<flashcards[sessions[s].card]>>]
    /\ UNCHANGED <<flashcards, flashcard_srs, today, last, fives>>

\* main.py:2160-2185: the mastery fields and tags, UPDATE, COMMIT; then the
\* response
EnhancedCommitCard(s) ==
    LET c == sessions[s].card
        loaded == sessions[s].flashcard[1]
        flashcard == EnhancedCardAfter(loaded, sessions[s].quality,
                                       sessions[s].srs[1].repetitions)
    IN  /\ sessions[s].pc = "commit_card"
        /\ flashcards' = [flashcards EXCEPT
                             ![c] = WriteDirty(flashcards[c], loaded, flashcard)]
        /\ sessions' = [sessions EXCEPT ![s].pc = "done", ![s].status = 200]
        /\ last' = [op |-> "review_enhanced", status |-> 200,
                    card |-> c, quality |-> sessions[s].quality,
                    result |-> <<>>,
                    feedback |-> EnhancedFeedback(sessions[s].quality)]
        /\ fives' = [fives EXCEPT
                        ![c] = IF sessions[s].quality = 5 THEN @ + 1 ELSE @]
        /\ UNCHANGED <<flashcard_srs, today>>

NextConcurrent ==
    \/ \E c \in Cards, u \in Creators : CreateFlashcard(c, u)
    \/ \E c \in Cards, u \in Creators : GenerateFlashcard(c, u)
    \/ \E s \in Sessions, c \in Cards, u \in Users, review_data \in ConcurrentReviews :
          EnhancedBegin(s, c, u, review_data[1], review_data[2])
    \/ \E s \in Sessions : EnhancedInsertSrs(s)
    \/ \E s \in Sessions : EnhancedUpdateSrs(s)
    \/ \E s \in Sessions : EnhancedReloadCard(s)
    \/ \E s \in Sessions : EnhancedCommitCard(s)

SpecConcurrent == Init /\ [][NextConcurrent]_vars

----------------------------------------------------------------------------
(* The due query and the mastered-card scan, on a deck of three cards of   *)
(* two users                                                               *)

Range(q) == {q[i] : i \in 1 .. Len(q)}

\* the lists without repetition of all the cards of S, earliest due_date
\* first; cards with the same due_date come in any order
ByDueDate(S) ==
    {q \in [1 .. Cardinality(S) -> S] :
        /\ \A i, j \in 1 .. Cardinality(S) : i # j => q[i] # q[j]
        /\ \A i, j \in 1 .. Cardinality(S) :
              i < j => flashcard_srs[q[i]].due_date <= flashcard_srs[q[j]].due_date}

DueSrsStrictlyBefore(user_id, limit) ==
    LET due == {c \in DOMAIN flashcard_srs :
                    /\ flashcard_srs[c].user_id = user_id
                    /\ flashcard_srs[c].due_date < today}
    IN  {SubSeq(q, 1, Min(limit, Len(q))) : q \in ByDueDate(due)}

\* the first query of get_due_flashcards_srs (database.py:1108-1114):
\* filter(user_id, due_date <= today).order_by(due_date.asc()).limit(limit);
\* the order of rows with equal due_date is the database's choice
DueSrs(user_id, limit) ==
    LET due == {c \in DOMAIN flashcard_srs :
                    /\ flashcard_srs[c].user_id = user_id
                    /\ flashcard_srs[c].due_date <= today}
    IN  {SubSeq(q, 1, Min(limit, Len(q))) : q \in ByDueDate(due)}

\* GET /flashcards/due/srs (main.py:2286-2313, database.py:1101-1130): the
\* Flashcard rows of the ids found come back in any order and are sorted,
\* stably, by the due_date of their schedule
GetDueFlashcardsSrs(u, limit) ==
    /\ \E due_srs \in DueSrs(u, limit) :
          \E result \in ByDueDate(Range(due_srs) \cap DOMAIN flashcards) :
              last' = [op |-> "due", status |-> 200, card |-> "none",
                       quality |-> 0, result |-> result, feedback |-> ""]
    /\ UNCHANGED <<flashcards, flashcard_srs, today, sessions, fives>>

MasteredSrsAbove(user_id, min_repetitions) ==
    {c \in DOMAIN flashcard_srs :
        /\ flashcard_srs[c].user_id = user_id
        /\ flashcard_srs[c].repetitions >= min_repetitions
        /\ flashcard_srs[c].efactor > MasteredEfactor}

\* the query of archive_mastered_flashcards (database.py:1167-1175)
MasteredSrs(user_id, min_repetitions) ==
    {c \in DOMAIN flashcard_srs :
        /\ flashcard_srs[c].user_id = user_id
        /\ flashcard_srs[c].repetitions >= min_repetitions
        /\ flashcard_srs[c].efactor >= MasteredEfactor}

\* the lists without repetition of all the cards of S, in any order
AnyOrder(S) ==
    {q \in [1 .. Cardinality(S) -> S] :
        \A i, j \in 1 .. Cardinality(S) : i # j => q[i] # q[j]}

ArchivedFlashcardMastered(row) ==
    [row EXCEPT !.tags = IF row.tags = <<>> THEN <<RecentlyLearned>>
                         ELSE row.tags,
                !.mastery_level = 100]

\* database.py:1183-1190 on one selected row: the tag is appended unless it
\* is there; db.commit() writes tags only when the loaded list was empty and
\* the attribute was assigned (flashcard.tags = []) before the append
ArchivedFlashcard(row) ==
    [row EXCEPT !.tags = IF row.tags = <<>> THEN <<RecentlyLearned>>
                         ELSE row.tags]

\* POST /flashcards/archive/mastered (main.py:2317-2348, database.py:1163-1191)
ArchiveMasteredFlashcards(u, min_repetitions) ==
    LET mastered == MasteredSrs(u, min_repetitions) \cap DOMAIN flashcards
    IN  /\ flashcards' =
               [c \in DOMAIN flashcards |->
                   IF c \in mastered THEN ArchivedFlashcard(flashcards[c])
                   ELSE flashcards[c]]
        /\ \E result \in AnyOrder(mastered) :
              last' = [op |-> "archive", status |-> 200, card |-> "none",
                       quality |-> 0, result |-> result, feedback |-> ""]
        /\ UNCHANGED <<flashcard_srs, today, sessions, fives>>

\* who creates which card of the deck
DeckOwner(c) == IF c = "c3" THEN "u2" ELSE "u1"

\* the reviews made on the deck: c1 rated 5 by hand, c2 answered in part
DeckReviews == {<<"c1", TextDog, <<5>>>>, <<"c2", TextCatSat, <<>>>>}

\* limit of the due query, min_repetitions of the scan (query parameters)
Limits == {1, 2}
MinRepetitions == {1, 3}

NextDeck ==
    \/ Tick
    \/ \E c \in AllCards : GenerateFlashcard(c, DeckOwner(c))
    \/ \E review_data \in DeckReviews :
          ReviewFlashcardEnhanced(review_data[1], DeckOwner(review_data[1]),
                                  review_data[2], review_data[3])
    \/ ReviewFlashcard("c1", <<49>>)
    \/ \E u \in Users, limit \in Limits : GetDueFlashcardsSrs(u, limit)
    \/ \E u \in Users, min_repetitions \in MinRepetitions :
          ArchiveMasteredFlashcards(u, min_repetitions)

SpecDeck == Init /\ [][NextDeck]_vars

----------------------------------------------------------------------------
(* Reviews of different cards served at the same time: session s reviews   *)
(* the card SessionCard(s), as its owner                                   *)

\* flashcard_id of the request that session s serves
SessionCard(s) ==
    CASE s = 1 -> "c1"
      [] s = 2 -> "c2"
      [] OTHER -> "c3"

NextParallel ==
    \/ \E s \in Sessions :
          CreateFlashcard(SessionCard(s), DeckOwner(SessionCard(s)))
    \/ \E s \in Sessions :
          GenerateFlashcard(SessionCard(s), DeckOwner(SessionCard(s)))
    \/ \E s \in Sessions, review_data \in ConcurrentReviews :
          EnhancedBegin(s, SessionCard(s), DeckOwner(SessionCard(s)),
                        review_data[1], review_data[2])
    \/ \E s \in Sessions : EnhancedInsertSrs(s)
    \/ \E s \in Sessions : EnhancedUpdateSrs(s)
    \/ \E s \in Sessions : EnhancedReloadCard(s)
    \/ \E s \in Sessions : EnhancedCommitCard(s)

SpecParallel == Init /\ [][NextParallel]_vars

----------------------------------------------------------------------------
(* Vocabulary of the properties *)

\* this step is a review of card c through the enhanced handler, answered 200
EnhancedReviewed(c) ==
    /\ c \in DOMAIN flashcards
    /\ flashcards'[c].review_count # flashcards[c].review_count
    /\ last'.op = "review_enhanced"
    /\ last'.status = 200
    /\ last'.card = c

\* the schedule the review started from: the stored one, or the defaults
PriorSrs(c) ==
    IF c \in DOMAIN flashcard_srs THEN flashcard_srs[c]
    ELSE NewSrsEntry(flashcard_srs'[c].user_id, today)

\* the last request was a review of c through the enhanced handler, answered 200
LastReviewed(c) ==
    /\ last.op = "review_enhanced"
    /\ last.status = 200
    /\ last.card = c
    /\ c \in DOMAIN flashcard_srs

\* every review request made for c so far was answered 200 at quality 5
OnlyFives(c) ==
    /\ c \in DOMAIN flashcards
    /\ c \in DOMAIN flashcard_srs
    /\ fives[c] = flashcards[c].review_count

\* delta of the e-factor in hundredths, as the specification writes it:
\* 0.1 - (5 - q) * (0.08 + (5 - q) * 0.02)
SpecDelta(q) == 10 - (5 - q) * (8 + (5 - q) * 2)

\* n is interval_days * efactor / 100 rounded to a nearest integer
IsRounded(n, interval_days, efactor) ==
    (100 * n - interval_days * efactor) \in -50 .. 50

----------------------------------------------------------------------------
(* C1: in every reachable state every schedule has e_factor >= 1.3         *)
(* (efactor >= 130) and interval_days >= 1, whatever qualities were given. *)
C1_ScheduleFloors ==
    \A c \in DOMAIN flashcard_srs :
        /\ flashcard_srs[c].efactor >= 130
        /\ flashcard_srs[c].interval_days >= 1

\* a successful review whose e-factor change would go below the floor
C1_Witness ==
    \E c \in Cards :
        /\ LastReviewed(c)
        /\ last.quality = 16
        /\ flashcard_srs[c].efactor = 130
        /\ flashcard_srs[c].repetitions = 1

----------------------------------------------------------------------------
(* C2: two concurrent reviews of the same flashcard never interleave their *)
(* read-modify-write of the schedule: once the requests have been answered *)
(* the stored (repetitions, interval_days, efactor, due_date) is what the  *)
(* answered reviews give when applied one after the other, in some order,  *)
(* to the schedule they started from.                                      *)
ScheduleOf(row) ==
    <<row.repetitions, row.interval_days, row.efactor, row.due_date>>

\* the schedules that the reviews of the sessions S give from row when they
\* run one after the other, in every order
RECURSIVE SerialOutcomes(_, _)
SerialOutcomes(row, S) ==
    IF S = {} THEN {row}
    ELSE UNION {SerialOutcomes(SrsAfterReview(row, sessions[s].quality, today),
                               S \ {s}) : s \in S}

Answered(c) ==
    {s \in Sessions : /\ sessions[s].pc = "done"
                      /\ sessions[s].status = 200
                      /\ sessions[s].card = c}

C2_ConcurrentReviewsSerialize ==
    \A c \in DOMAIN flashcard_srs :
        (\A s \in Sessions : sessions[s].pc \in {"idle", "done"})
        => ScheduleOf(flashcard_srs[c]) \in
              {ScheduleOf(row) :
                  row \in SerialOutcomes(NewSrsEntry("u1", 0), Answered(c))}

----------------------------------------------------------------------------
(* C3, as the specification states it: every schedule update, a failed one *)
(* (quality < 3) included, stores max(1.3, old e_factor + delta) with      *)
(* delta = 0.1 - (5-q)*(0.08 + (5-q)*0.02).                                *)
C3_EfactorAdaptedOnEveryUpdate ==
    [][\A c \in Cards :
          EnhancedReviewed(c)
          => flashcard_srs'[c].efactor =
                Max(130, PriorSrs(c).efactor + SpecDelta(last'.quality))]_vars

(* C3, as the code has it: a successful update (quality >= 3) stores       *)
(* max(1.3, old e_factor + delta), quality 5 raising it by 0.1; a failed   *)
(* update (quality < 3) leaves the e_factor as it was.                     *)
C3_EfactorAdaptedOnSuccessOnly ==
    [][\A c \in Cards :
          EnhancedReviewed(c)
          => /\ last'.quality >= 3
                => flashcard_srs'[c].efactor =
                      Max(130, PriorSrs(c).efactor + SpecDelta(last'.quality))
             /\ last'.quality = 5
                => flashcard_srs'[c].efactor = PriorSrs(c).efactor + 10
             /\ last'.quality < 3
                => flashcard_srs'[c].efactor = PriorSrs(c).efactor]_vars

\* a review failed at quality 0 from e_factor 2.5 and the e_factor is 2.5
C3_Witness ==
    \E c \in Cards :
        /\ LastReviewed(c)
        /\ last.quality = 0
        /\ flashcards[c].review_count = 1
        /\ flashcard_srs[c].efactor = 250

----------------------------------------------------------------------------
(* C4: a schedule update with quality < 3 yields repetitions = 0 and       *)
(* interval_days = 1, whatever the repetitions, interval and e_factor were *)
(* before.                                                                 *)
C4_FailureResets ==
    [][\A c \in Cards :
          (EnhancedReviewed(c) /\ last'.quality < 3)
          => /\ flashcard_srs'[c].repetitions = 0
             /\ flashcard_srs'[c].interval_days = 1]_vars

\* a failure after the card had built up a history: the e_factor has moved,
\* which only successes do
C4_Witness ==
    \E c \in Cards :
        /\ LastReviewed(c)
        /\ last.quality = 2
        /\ flashcard_srs[c].efactor > 250
        /\ flashcards[c].review_count >= 4
        /\ flashcard_srs[c].repetitions = 0
        /\ flashcard_srs[c].interval_days = 1

----------------------------------------------------------------------------
(* C5: a successful update (quality >= 3) adds exactly 1 to repetitions    *)
(* and the new interval is 1 when the new repetitions is 1, 6 when it is   *)
(* 2, and max(1, round(previous interval_days * previous e_factor)) when   *)
(* it is 3 or more: the product uses the values from before this update.   *)
C5_SuccessInterval ==
    [][\A c \in Cards :
          (EnhancedReviewed(c) /\ last'.quality >= 3)
          => LET prev == PriorSrs(c)
                 next == flashcard_srs'[c]
             IN  /\ next.repetitions = prev.repetitions + 1
                 /\ next.repetitions = 1 => next.interval_days = 1
                 /\ next.repetitions = 2 => next.interval_days = 6
                 /\ next.repetitions >= 3
                    => /\ next.interval_days >= 1
                       /\ IsRounded(next.interval_days,
                                    prev.interval_days, prev.efactor)]_vars

\* a third success in a row whose quality 3 lowered the e_factor: 6 * 2.5
\* gives 15, 6 * 2.36 would give 14
C5_Witness ==
    \E c \in Cards :
        /\ LastReviewed(c)
        /\ last.quality = 3
        /\ flashcard_srs[c].repetitions = 3
        /\ flashcard_srs[c].efactor = 236
        /\ flashcard_srs[c].interval_days = 15

----------------------------------------------------------------------------
(* C6: immediately after any schedule update, failed or successful, made   *)
(* on day today, due_date = today + interval_days with the interval_days   *)
(* that this update produced.                                              *)
C6_DueDateFollowsInterval ==
    [][\A c \in Cards :
          EnhancedReviewed(c)
          => flashcard_srs'[c].due_date =
                today + flashcard_srs'[c].interval_days]_vars

\* a review on day 1 that moved the interval from 1 to 6
C6_Witness ==
    \E c \in Cards :
        /\ LastReviewed(c)
        /\ today = 1
        /\ flashcard_srs[c].repetitions = 2
        /\ flashcard_srs[c].interval_days = 6
        /\ flashcard_srs[c].due_date = 7

----------------------------------------------------------------------------
(* C7: from a fresh schedule (e_factor 2.5, interval 1, repetitions 0),    *)
(* with quality 5 at every review, the intervals are 1, 6, round(6 *       *)
(* e_factor after the second review) = 16, then round(interval * e_factor) *)
(* each time, and from the second review on no review lowers the interval. *)
C7_FiveStreakIntervals ==
    [][\A c \in Cards :
          (EnhancedReviewed(c) /\ OnlyFives(c)')
          => LET prev == PriorSrs(c)
                 next == flashcard_srs'[c]
                 n == flashcards'[c].review_count
             IN  /\ next.repetitions = n
                 /\ n = 1 => prev.efactor = 250 /\ next.interval_days = 1
                 /\ n = 2 => next.interval_days = 6
                 /\ n = 3 => /\ prev.efactor = 270
                             /\ next.interval_days = 16
                 /\ n >= 3 => IsRounded(next.interval_days,
                                        prev.interval_days, prev.efactor)
                 /\ n >= 2 => next.interval_days >= prev.interval_days]_vars

\* four reviews at quality 5 and nothing else: 1, 6, 16, 45
C7_Witness ==
    \E c \in Cards :
        /\ LastReviewed(c)
        /\ OnlyFives(c)
        /\ flashcards[c].review_count = 4
        /\ flashcard_srs[c].interval_days = 45

----------------------------------------------------------------------------
----------------------------------------------------------------------------
(* C9: on every review entry point review_count counts the completed       *)
(* reviews: it changes only in a step that completes a review (the request *)
(* is answered 200), and then by exactly 1.                                *)
C9_ReviewCountCountsCompletedReviews ==
    [][\A c \in DOMAIN flashcards :
          flashcards'[c].review_count # flashcards[c].review_count
          => /\ flashcards'[c].review_count = flashcards[c].review_count + 1
             /\ last'.status = 200
             /\ last'.card = c]_vars

----------------------------------------------------------------------------
(* C10: whatever reviews are made, with whatever performance scores,       *)
(* mastery_level is within 0 .. 100 in every reachable state.              *)
C10_MasteryBounds ==
    \A c \in DOMAIN flashcards :
        /\ flashcards[c].mastery_level >= 0
        /\ flashcards[c].mastery_level <= 100

\* a first review with a score below 50: the level would go to -10
C10_Witness ==
    \E c \in DOMAIN flashcards :
        /\ last.op = "review"
        /\ last.card = c
        /\ flashcards[c].review_count = 1
        /\ flashcards[c].last_performance = <<49>>
        /\ flashcards[c].mastery_level = 0

----------------------------------------------------------------------------
(* C11: one review changes mastery_level by one application of the rule:   *)
(* with a performance score of 80 or more to min(100, old + 20), with one  *)
(* below 50 to max(0, old - 10), with one in 50 .. 79 not at all; and      *)
(* last_performance is that review's performance score (the quality's      *)
(* score 0, 20, 40, 60, 80, 100 on the enhanced entry point).              *)
C11_MasteryRule ==
    [][\A c \in DOMAIN flashcards :
          flashcards'[c].review_count # flashcards[c].review_count
          => LET old == flashcards[c].mastery_level
                 new == flashcards'[c].mastery_level
                 score == flashcards'[c].last_performance[1]
             IN  /\ flashcards'[c].last_performance # <<>>
                 /\ score >= 80 => new = (IF old + 20 > 100 THEN 100 ELSE old + 20)
                 /\ score < 50 => new = (IF old - 10 < 0 THEN 0 ELSE old - 10)
                 /\ (score >= 50 /\ score < 80) => new = old
                 /\ (EnhancedReviewed(c) /\ last'.quality \in 0 .. 5)
                    => score = 20 * last'.quality]_vars

\* a review at quality 3 (score 60) has left a level of 20 where it was
C11_Witness ==
    \E c \in Cards :
        /\ LastReviewed(c)
        /\ last.quality = 3
        /\ flashcards[c].review_count = 2
        /\ flashcards[c].last_performance = <<60>>
        /\ flashcards[c].mastery_level = 20

----------------------------------------------------------------------------
(* C12: after a review the tag "recently_learned" follows the performance  *)
(* score and the repetitions of the schedule as just updated: score >= 80  *)
(* and repetitions >= 3, the tag is there exactly once; score < 50, the    *)
(* tag is not there; in every other case the tags are as they were.        *)
Occurrences(x, s) == Cardinality({i \in 1 .. Len(s) : s[i] = x})

C12_TagMaintenance ==
    [][\A c \in Cards :
          EnhancedReviewed(c)
          => LET score == flashcards'[c].last_performance[1]
                 repetitions == flashcard_srs'[c].repetitions
                 tags == flashcards'[c].tags
             IN  /\ (score >= 80 /\ repetitions >= 3)
                    => Occurrences("recently_learned", tags) = 1
                 /\ score < 50 => ~InSeq("recently_learned", tags)
                 /\ (score >= 50 /\ (score < 80 \/ repetitions < 3))
                    => tags = flashcards[c].tags]_vars

----------------------------------------------------------------------------
(* C13: when the normalized answers differ and the reference has words,    *)
(* the scorer takes similarity = |typed words /\ reference words| /        *)
(* |reference words| and resolves quality 5 from 0.8, 4 from 0.6, 3 from   *)
(* 0.4, 2 from 0.2 and 1 below; "the cat sat on the mat" answered with     *)
(* "the cat sat" is quality 4.                                             *)
OverlapQuality(answer, typed) ==
    LET reference_words == WordSet(Strip(Lower(answer)))
        typed_words == WordSet(Strip(Lower(typed)))
        overlap == Cardinality(typed_words \cap reference_words)
        n == Cardinality(reference_words)
    IN  IF 10 * overlap >= 8 * n THEN 5
        ELSE IF 10 * overlap >= 6 * n THEN 4
        ELSE IF 10 * overlap >= 4 * n THEN 3
        ELSE IF 10 * overlap >= 2 * n THEN 2
        ELSE 1

C13_ScorerThresholds ==
    [][\A c \in AllCards, u \in Users, typed \in TypedAnswers :
          ( /\ ReviewFlashcardEnhanced(c, u, typed, <<>>)
            /\ c \in DOMAIN flashcards
            /\ Strip(Lower(typed)) # Strip(Lower(CardAnswer(c)))
            /\ WordSet(Strip(Lower(CardAnswer(c)))) # {} )
          => last'.quality = OverlapQuality(CardAnswer(c), typed)]_vars

----------------------------------------------------------------------------
(* C14: a review on the entry point that calls the grader, with a grader   *)
(* that fails, ends as it does without a grader: it is answered without an *)
(* error and the schedule gets the update of the quality (1 .. 5) that the *)
(* heuristic scorer resolves.                                              *)
C14_GraderFailureFallsBack ==
    [][\A c \in DOMAIN flashcards :
          ( /\ last'.op = "review"
            /\ last'.card = c
            /\ flashcards'[c].review_count # flashcards[c].review_count )
          => /\ last'.status = 200
             /\ c \in DOMAIN flashcard_srs'
             /\ \E quality \in 1 .. 5 :
                   flashcard_srs'[c] =
                       SrsAfterReview(PriorSrs(c), quality, today)]_vars

----------------------------------------------------------------------------
(* C15: a review with a manual quality rating outside 0 .. 5, or with an   *)
(* empty typed answer, is rejected before anything is written: it is not   *)
(* answered 200, no schedule is created or changed and the card's          *)
(* review_count, mastery_level, last_performance and tags stay as they     *)
(* were.                                                                   *)
C15_InvalidInputRejected ==
    [][\A c \in Cards, u \in Creators, review_data \in DetailedReviews :
          LET typed == review_data[1]
              rating == review_data[2]
          IN  ( /\ c \in DOMAIN flashcards
                /\ last'.op = "review_enhanced"
                /\ ReviewFlashcardEnhanced(c, u, typed, rating)
                /\ \/ typed = <<>>
                   \/ rating # <<>> /\ rating[1] \notin 0 .. 5 )
              => /\ last'.status # 200
                 /\ UNCHANGED <<flashcards, flashcard_srs>>]_vars

----------------------------------------------------------------------------
(* C16: the schedule update clamps the quality to 0 .. 5 before it uses    *)
(* it: a quality above 5 gives the schedule that quality 5 gives, a        *)
(* quality below 0 the schedule that quality 0 gives.                      *)
Clamped(quality) == IF quality > 5 THEN 5 ELSE IF quality < 0 THEN 0 ELSE quality

C16_QualityClamped ==
    [][\A c \in Cards :
          EnhancedReviewed(c)
          => flashcard_srs'[c] =
                SrsAfterReview(PriorSrs(c), Clamped(last'.quality), today)]_vars

----------------------------------------------------------------------------
(* C17: a manual quality rating is the resolved quality as it stands, no   *)
(* scorer takes part: the review ends in the same state whatever the typed *)
(* answer is.                                                              *)
C17_ManualRatingVerbatim ==
    [][\A c \in Cards, u \in Creators, review_data \in DetailedReviews :
          LET typed == review_data[1]
              rating == review_data[2]
          IN  ( /\ rating # <<>>
                /\ c \in DOMAIN flashcards
                /\ last'.op = "review_enhanced"
                /\ flashcards' # flashcards
                /\ ReviewFlashcardEnhanced(c, u, typed, rating) )
              => /\ last'.status = 200
                 /\ last'.quality = rating[1]
                 /\ \A other \in TypedAnswers :
                       ReviewFlashcardEnhanced(c, u, other, rating)]_vars

\* a review resolved to quality 0, which no scorer gives
C17_Witness ==
    \E c \in Cards :
        /\ LastReviewed(c)
        /\ last.quality = 0
        /\ flashcards[c].last_performance = <<0>>
        /\ flashcard_srs[c].repetitions = 0

----------------------------------------------------------------------------
(* C18: the due query returns exactly the user's cards with due_date <=    *)
(* today, earliest due_date first and, among equal due dates, smallest     *)
(* flashcard_id first, cut to the first `limit` cards of that order.       *)
CardNo(c) == CASE c = "c1" -> 1 [] c = "c2" -> 2 [] c = "c3" -> 3

Before(c, d) ==
    \/ flashcard_srs[c].due_date < flashcard_srs[d].due_date
    \/ /\ flashcard_srs[c].due_date = flashcard_srs[d].due_date
       /\ CardNo(c) < CardNo(d)

DueInOrder(u, limit) ==
    LET due == {c \in DOMAIN flashcard_srs \cap DOMAIN flashcards :
                    /\ flashcards[c].user_id = u
                    /\ flashcard_srs[c].due_date <= today}
        all == CHOOSE q \in [1 .. Cardinality(due) -> due] :
                  \A i, j \in 1 .. Cardinality(due) : i < j => Before(q[i], q[j])
    IN  SubSeq(all, 1, IF limit < Len(all) THEN limit ELSE Len(all))

C18_DueQueryOrder ==
    [][\A u \in Users, limit \in Limits :
          (last'.op = "due" /\ GetDueFlashcardsSrs(u, limit))
          => last'.result = DueInOrder(u, limit)]_vars

----------------------------------------------------------------------------
----------------------------------------------------------------------------
----------------------------------------------------------------------------
(* C21: a review of a flashcard that does not exist is answered 404 (not   *)
(* found) and changes no flashcard and no schedule, through either review  *)
(* entry point.                                                            *)
C21_NotFoundMutatesNothing ==
    [][\A c \in AllCards :
          (/\ c \notin DOMAIN flashcards
           /\ \/ \E review_data \in DeckReviews :
                    /\ review_data[1] = c
                    /\ ReviewFlashcardEnhanced(c, DeckOwner(c), review_data[2],
                                               review_data[3])
              \/ (c = "c1" /\ ReviewFlashcard(c, <<49>>)))
          => /\ last'.status = 404
             /\ last'.card = c
             /\ flashcards' = flashcards
             /\ flashcard_srs' = flashcard_srs]_vars

\* a review of c2, which does not exist, answered 404 after c1 was reviewed
C21_Witness ==
    /\ last.op = "review_enhanced"
    /\ last.status = 404
    /\ last.card = "c2"
    /\ "c2" \notin DOMAIN flashcards
    /\ "c2" \notin DOMAIN flashcard_srs
    /\ "c1" \in DOMAIN flashcards
    /\ flashcards["c1"].review_count > 0

----------------------------------------------------------------------------
(* C22: a review on the entry point that calls the grader does not hang on *)
(* the grader: whatever the grader does, the review of an existing card    *)
(* completes, answered without an error, and the card's schedule has been  *)
(* updated, so that it is due after the day of the review.                 *)
C22_ReviewCompletesWithSchedule ==
    (last.op = "review" /\ last.status # 404)
    => /\ last.status = 200
       /\ last.card \in DOMAIN flashcard_srs
       /\ flashcard_srs[last.card].due_date > 0

----------------------------------------------------------------------------
(* C23: a schedule is created lazily and only when the card has none: a    *)
(* schedule that appears has the defaults (efactor 250, interval 1,        *)
(* due_date = the current day, repetitions 0); the get-or-create of a      *)
(* review that finds a schedule loads it and changes nothing; no schedule  *)
(* is ever removed, and an INSERT for a card that got a schedule meanwhile *)
(* is refused and leaves the one record the card has, also when the        *)
(* requests interleave.                                                    *)
C23_LazySchedule ==
    [][/\ DOMAIN flashcard_srs \subseteq DOMAIN flashcard_srs'
       /\ \A c \in DOMAIN flashcard_srs' \ DOMAIN flashcard_srs :
             /\ flashcard_srs'[c].efactor = 250
             /\ flashcard_srs'[c].interval_days = 1
             /\ flashcard_srs'[c].due_date = today
             /\ flashcard_srs'[c].repetitions = 0
             /\ \A d \in DOMAIN flashcard_srs :
                   flashcard_srs'[d] = flashcard_srs[d]
       /\ \A s \in Sessions :
             (sessions[s].pc = "idle" /\ sessions'[s].pc = "update_srs")
             => /\ sessions'[s].srs = <<flashcard_srs[sessions'[s].card]>>
                /\ flashcard_srs' = flashcard_srs
       /\ \A s \in Sessions :
             (/\ sessions[s].pc = "insert_srs"
              /\ sessions'[s].pc # "insert_srs"
              /\ sessions[s].card \in DOMAIN flashcard_srs)
             => /\ flashcard_srs' = flashcard_srs
                /\ sessions'[s].status = 500]_vars

\* two reviews found no schedule; one inserted it and has updated it, the
\* INSERT of the other was refused
C23_Witness ==
    \E s, t \in Sessions :
        /\ sessions[s].pc = "done"
        /\ sessions[s].status = 500
        /\ sessions[t].pc = "done"
        /\ sessions[t].status = 200
        /\ sessions[t].card = sessions[s].card
        /\ flashcard_srs[sessions[s].card].repetitions = 1

----------------------------------------------------------------------------
(* C24: a typed answer that equals the card's answer after normalization   *)
(* (case folded, every character that is neither alphanumeric nor          *)
(* whitespace removed, whitespace collapsed and trimmed) is scored as an   *)
(* exact match, quality 5; so is "  paris!! " for the answer "Paris".      *)

\* the characters of the texts that are neither alphanumeric nor whitespace
Punctuation == {"!"}

RECURSIVE Collapsed(_)
Collapsed(s) ==
    IF Len(s) < 2 THEN s
    ELSE IF s[1] \in Whitespace /\ s[2] \in Whitespace
         THEN Collapsed(Tail(s))
         ELSE <<s[1]>> \o Collapsed(Tail(s))

\* the normalization as the specification states it
SpecNormalized(s) ==
    Strip(Collapsed(SelectSeq(Lower(s), LAMBDA ch : ch \notin Punctuation)))

C24_NormalizedMatchIsPerfect ==
    [][\A c \in Cards, typed \in TypedAnswers :
          (/\ c \in DOMAIN flashcards
           /\ SpecNormalized(typed) = SpecNormalized(CardAnswer(c))
           /\ last'.op = "review_enhanced"
           /\ flashcards' # flashcards
           /\ ReviewFlashcardEnhanced(c, "u1", typed, <<>>))
          => last'.quality = 5]_vars

----------------------------------------------------------------------------
(* C25: the feedback of a review for which no grader supplied one is the   *)
(* template of the band of the resolved quality: "mastered" for 4 and      *)
(* more, the encouragement for 3, "review again" for 2 and less.           *)
C25_FeedbackByQualityBand ==
    [][\A c \in Cards :
          EnhancedReviewed(c)
          => last'.feedback =
                (IF last'.quality >= 4
                 THEN "Excellent! You've mastered this concept."
                 ELSE IF last'.quality = 3
                 THEN "Good job! Keep practicing to improve."
                 ELSE "Keep studying this material. Review the answer and try again.")]_vars

----------------------------------------------------------------------------
(* C26: reviews of different cards are independent.  A step of the review  *)
(* of one card leaves the flashcard and the schedule of every other card   *)
(* as they are, and a review answered 200 leaves its card with the         *)
(* schedule and mastery fields that the review gives alone, whatever the   *)
(* reviews of the other cards have done before it, after it or between its *)
(* statements.                                                             *)
C26_ReviewsOfDifferentCardsIndependent ==
    [][\A s \in Sessions :
          /\ sessions'[s] # sessions[s]
             => \A d \in AllCards \ {sessions'[s].card} :
                   /\ d \in DOMAIN flashcards
                      => flashcards'[d] = flashcards[d]
                   /\ d \in DOMAIN flashcard_srs
                      => flashcard_srs'[d] = flashcard_srs[d]
                   /\ d \in DOMAIN flashcard_srs' => d \in DOMAIN flashcard_srs
          /\ (sessions'[s].pc = "done" /\ sessions'[s].status = 200)
             => LET c == SessionCard(s)
                    quality == sessions'[s].quality
                    alone == SrsAfterReview(NewSrsEntry(DeckOwner(c), today),
                                            quality, today)
                IN  /\ flashcard_srs'[c] = alone
                    /\ flashcards'[c] =
                          EnhancedCardAfter(NewFlashcard(c, DeckOwner(c)),
                                            quality, alone.repetitions)]_vars

\* the reviews of c1 and of c2 are both under way: each has written its
\* schedule, neither has written its flashcard yet
C26_Witness ==
    /\ sessions[1].pc = "commit_card"
    /\ sessions[2].pc = "reload_card"
    /\ flashcard_srs["c1"].repetitions = 1
    /\ flashcard_srs["c1"].efactor = 260
    /\ flashcard_srs["c2"].repetitions = 0
    /\ flashcard_srs["c2"].due_date = today + 1
    /\ flashcards["c1"].review_count = 0
    /\ flashcards["c2"].review_count = 0

----------------------------------------------------------------------------
(* C27: a review is all-or-nothing across the schedule and the mastery     *)
(* fields of its card: the rows of an existing card change only in a step  *)
(* that answers a review of that card without an error, and then both the  *)
(* flashcard (review counted) and the schedule (due after today) have the  *)
(* update; a review answered with an error has changed nothing.            *)
C27_ReviewAllOrNothing ==
    [][\A c \in DOMAIN flashcards :
          ( \/ flashcards'[c] # flashcards[c]
            \/ /\ c \in DOMAIN flashcard_srs'
               /\ c \in DOMAIN flashcard_srs => flashcard_srs'[c] # flashcard_srs[c] )
          => /\ last'.status = 200
             /\ last'.card = c
             /\ flashcards'[c].review_count = flashcards[c].review_count + 1
             /\ c \in DOMAIN flashcard_srs'
             /\ flashcard_srs'[c].due_date > today]_vars

----------------------------------------------------------------------------
(* C28: a review made by a user changes state only for a flashcard that    *)
(* this user owns, and the user_id of every schedule is the owner of its   *)
(* flashcard.                                                              *)
C28_ReviewsOnlyOwnCards ==
    [][/\ \A s \in Sessions :
             (/\ sessions'[s] # sessions[s]
              /\ sessions[s].pc # "idle"
              /\ flashcards' # flashcards \/ flashcard_srs' # flashcard_srs)
             => flashcards[sessions[s].card].user_id = sessions[s].user
       /\ \A c \in DOMAIN flashcard_srs' :
             /\ c \in DOMAIN flashcards'
             /\ flashcard_srs'[c].user_id = flashcards'[c].user_id]_vars

----------------------------------------------------------------------------
(* C29: a review answered 200 on day d leaves the schedule due after d, so *)
(* that no due query made on day d returns the card any more; a schedule   *)
(* that is created without a review is due on the day of its creation and  *)
(* a due query of its user made that day, with room for it, returns it.    *)
C29_ReviewedNotDueSameDay ==
    [][\A c \in AllCards :
          /\ EnhancedReviewed(c)
             => /\ flashcard_srs'[c].due_date > today
                /\ \A u \in Users, limit \in Limits :
                      \A q \in DueSrs(u, limit)' : ~InSeq(c, q)
          /\ (/\ c \notin DOMAIN flashcard_srs
              /\ c \in DOMAIN flashcard_srs'
              /\ ~EnhancedReviewed(c))
             => /\ flashcard_srs'[c].due_date = today
                /\ \A u \in Users :
                      u = flashcard_srs'[c].user_id
                      => \A q \in DueSrs(u, 2)' : InSeq(c, q)]_vars

\* a due query on the day c1 was reviewed and c2 was generated returns c2
\* and not c1
C29_Witness ==
    /\ last.op = "due"
    /\ last.result = <<"c2">>
    /\ {"c1", "c2"} \subseteq DOMAIN flashcard_srs
    /\ flashcards["c1"].review_count > 0
    /\ flashcard_srs["c1"].due_date = today + 1
    /\ flashcards["c2"].review_count = 0
    /\ flashcard_srs["c2"].due_date = today

----------------------------------------------------------------------------
(* C30: a card that started from a fresh schedule has a schedule that the  *)
(* mastered-card scan selects (efactor >= 300 and repetitions >=           *)
(* min_repetitions, with min_repetitions >= 1) only when at least 5 of its *)
(* reviews had quality 5, and never right after a failed review (quality   *)
(* below 3).                                                               *)
C30_MasteredNeedsFiveFives ==
    \A c \in DOMAIN flashcard_srs :
        (flashcard_srs[c].efactor >= 300 /\ flashcard_srs[c].repetitions >= 1)
        => /\ fives[c] >= 5
           /\ ~(LastReviewed(c) /\ last.quality < 3)

\* c1 failed once and then got five reviews at quality 5: it is selectable
C30_Witness ==
    /\ "c1" \in DOMAIN flashcard_srs
    /\ flashcard_srs["c1"].efactor = 300
    /\ flashcard_srs["c1"].repetitions = 5
    /\ flashcards["c1"].review_count = 6
    /\ fives["c1"] = 5
    /\ LastReviewed("c1")
    /\ last.quality = 5

====
